---- MODULE Spec2Model ----
(***************************************************************************)
(* Model of sops-zed: the filesystem watcher (src/bin/sops_context_server) *)
(* and the editor hooks (src/sops.rs), both acting on files by path and    *)
(* both driving the external `sops` tool.                                  *)
(*                                                                         *)
(* File content is abstracted to what the code can observe of it: the      *)
(* substrings it searches for (`contains`), the number of encryption       *)
(* layers the tool has put on it, and an identity of the secret payload.   *)
(***************************************************************************)
EXTENDS Integers, Sequences, FiniteSets, TLC

\* ------------------------------------------------------------------ bounds
MaxLayers == 2    \* encryption layers the tool may stack on one content
MaxRun    == 2    \* recorded tool invocations in one run of Closed events

\* ------------------------------------------------------------------ paths
Paths == {"secrets.sops.yaml", "config.yaml"}

\* The file names is_sops_file is examined on: those of Paths, names that
\* end with each allow-listed suffix, names that only look like it, and a
\* name whose bytes are not valid Unicode.
NotUnicode == "not-unicode.sops"

FileNames ==
    Paths \cup { ".sops", "sops", "sops.yaml", "a.sops.json", "b.enc.yaml",
                 "c.enc.json", "xsops.yaml", NotUnicode }

\* `None` of path.file_name().and_then(|n| n.to_str()).
None == <<>>

\* path.file_name().and_then(|n| n.to_str()), the name split at '.' so
\* that ends_with can be computed.
file_name(path) ==
    CASE path = "secrets.sops.yaml" -> <<"secrets", "sops", "yaml">>
      [] path = "config.yaml"       -> <<"config", "yaml">>
      [] path = ".sops"             -> <<"", "sops">>
      [] path = "sops"              -> <<"sops">>
      [] path = "sops.yaml"         -> <<"sops", "yaml">>
      [] path = "a.sops.json"       -> <<"a", "sops", "json">>
      [] path = "b.enc.yaml"        -> <<"b", "enc", "yaml">>
      [] path = "c.enc.json"        -> <<"c", "enc", "json">>
      [] path = "xsops.yaml"        -> <<"xsops", "yaml">>
      [] path = NotUnicode          -> None

\* The allow-listed suffixes of is_sops_file, each split at '.' with the
\* leading dot dropped: ".sops.yaml" is <<"sops","yaml">>.
SopsSuffixes ==
    { <<"sops", "yaml">>, <<"sops", "json">>, <<"enc", "yaml">>,
      <<"enc", "json">>, <<"sops">> }

\* str::ends_with for a suffix that starts with a dot: the name must have
\* a (possibly empty) component in front of the suffix's components.
ends_with(name, suffix) ==
    /\ Len(name) > Len(suffix)
    /\ SubSeq(name, Len(name) - Len(suffix) + 1, Len(name)) = suffix

HasSopsSuffix(path) == \E s \in SopsSuffixes : ends_with(file_name(path), s)

\* ---------------------------------------------------------------- content
\* The substrings the code looks for are "sops:", "ENC[", "encrypted_" and
\* "encrypted_suffix"; the last contains "encrypted_", so a content holding
\* it holds "encrypted_" too.

\* What the tool's own output carries when it wraps a payload.
ToolMarkers == {"sops:", "ENC["}

UserMarkerSets ==
    { {}, {"sops:"}, {"sops:", "encrypted_"},
      {"encrypted_", "encrypted_suffix"} }

\* The secret payloads a file may carry: the original and an edited one.
Payloads == {"v1", "v2"}

Contents == [data : Payloads, layers : 0..MaxLayers, user : UserMarkerSets]

\* str::contains(marker)
Contains(content, marker) ==
    \/ marker \in content.user
    \/ content.layers > 0 /\ marker \in ToolMarkers

\* What the environment (an editor, the operator, `sops` run by hand)
\* writes into a file.
EditContents ==
    { c \in Contents : \/ c.layers = 0 /\ (c.data = "v1" \/ c.user = {})
                       \/ c.layers = 1 /\ c.data = "v1" /\ c.user = {} }

NoContent == [data |-> "v1", layers |-> 0, user |-> {}]

\* A path names nothing, a directory, or a regular file; a regular file
\* holds text or bytes that are not UTF-8 (fs::read_to_string fails).
Absent  == [kind |-> "absent", readable |-> FALSE, content |-> NoContent]
Dir     == [kind |-> "dir",    readable |-> FALSE, content |-> NoContent]
Binary  == [kind |-> "file",   readable |-> FALSE, content |-> NoContent]
File(c) == [kind |-> "file",   readable |-> TRUE,  content |-> c]

\* ------------------------------------------------------- the external tool
\* `sops -d <path>`: plaintext on stdout; `sops -e -i <path>`: in place.
SopsDecrypt(content) == [content EXCEPT !.layers = content.layers - 1]
SopsEncrypt(content) == [content EXCEPT !.layers = content.layers + 1]

\* Exit status of one invocation.  `outcome` is the environment's part
\* (keys, creation rules); `-d` also fails on a file that carries no
\* encryption layer.
ToolExit(verb, f, outcome) ==
    IF /\ outcome = "ok"
       /\ f.kind = "file"
       /\ (verb = "-d" => f.content.layers > 0)
       /\ (verb = "-e" => f.content.layers < MaxLayers)
    THEN "ok" ELSE "fail"

Outcomes == [tool : {"ok", "fail"}, write : {"ok", "fail"}]

\* ============================================================ the watcher
\* (src/bin/sops_context_server.rs)

VARIABLES
    program,     \* which of the repository's programs runs
    files,       \* path -> file on disk
    running,     \* the `for res in rx` loop is still consuming events
    last,        \* the event handled by the latest step, with what it did
    DECRYPTED_FILES,  \* the map: tracked path -> snapshot stored on open
    lock,        \* the thread holding the DECRYPTED_FILES mutex, or "free"
    temp,        \* path -> the file at "<path>.tmp"
    th,          \* thread -> position and locals of its hook call
    returned,    \* the hook call that returned in the latest step
    saved,       \* path -> the file holds what save_document renamed in
    crashed,     \* the process was aborted by a panic
    rx,          \* the notifications waiting in the watcher's channel
    editor       \* the program that opens and closes a watched file

queueVars == <<rx, editor>>

hookVars == <<DECRYPTED_FILES, lock, temp, th, returned, saved, crashed>>

\* The result of one of the watcher's functions: the filesystem after it,
\* the tool invocation it made (verb, exit status) and its Result.
Ret(fs, tool, exit, res) ==
    [files |-> fs, tool |-> tool, exit |-> exit, res |-> res]

\* is_sops_file with `||` for the `&&` of the content test.
is_sops_file_AnyMarker(fs, path) ==
    IF fs[path].kind # "file" THEN FALSE
    ELSE IF file_name(path) = None THEN FALSE
    ELSE IF HasSopsSuffix(path) THEN TRUE
    ELSE IF /\ fs[path].readable
            /\ \/ \/ Contains(fs[path].content, "sops:")
                  \/ Contains(fs[path].content, "ENC[")
               \/ Contains(fs[path].content, "encrypted_suffix")
         THEN TRUE
    ELSE FALSE

is_sops_file(fs, path) ==
    IF fs[path].kind # "file" THEN FALSE
    ELSE IF file_name(path) = None THEN FALSE
    ELSE IF HasSopsSuffix(path) THEN TRUE
    ELSE IF /\ fs[path].readable
            /\ \/ /\ Contains(fs[path].content, "sops:")
                  /\ Contains(fs[path].content, "ENC[")
               \/ Contains(fs[path].content, "encrypted_suffix")
         THEN TRUE
    ELSE FALSE

\* What a failed tool run leaves on stdout.
Empty == [data |-> "", layers |-> 0, user |-> {}]

\* decrypt without the `!output.status.success()` test: stdout is written
\* to the file whatever the exit status.
decrypt_IgnoresStatus(fs, path, o) ==
    IF ToolExit("-d", fs[path], o.tool) # "ok"
    THEN Ret([fs EXCEPT ![path] = File(Empty)], "-d", "fail", "err")
    ELSE IF o.write # "ok"
    THEN Ret(fs, "-d", "ok", "err")
    ELSE Ret([fs EXCEPT ![path] = File(SopsDecrypt(fs[path].content))],
             "-d", "ok", "ok")

decrypt(fs, path, o) ==
    IF ToolExit("-d", fs[path], o.tool) # "ok"
    THEN Ret(fs, "-d", "fail", "err")
    ELSE IF o.write # "ok"
    THEN Ret(fs, "-d", "ok", "err")
    ELSE Ret([fs EXCEPT ![path] = File(SopsDecrypt(fs[path].content))],
             "-d", "ok", "ok")

\* encrypt with the already-encrypted test inverted.
encrypt_SkipInverted(fs, path, o) ==
    IF ~fs[path].readable THEN Ret(fs, "none", "none", "err")
    ELSE IF ~Contains(fs[path].content, "ENC[")
    THEN Ret(fs, "none", "none", "ok")
    ELSE IF ToolExit("-e", fs[path], o.tool) # "ok"
    THEN Ret(fs, "-e", "fail", "err")
    ELSE Ret([fs EXCEPT ![path] = File(SopsEncrypt(fs[path].content))],
             "-e", "ok", "ok")

\* encrypt without the already-encrypted test.
encrypt_NoSkip(fs, path, o) ==
    IF ~fs[path].readable THEN Ret(fs, "none", "none", "err")
    ELSE IF ToolExit("-e", fs[path], o.tool) # "ok"
    THEN Ret(fs, "-e", "fail", "err")
    ELSE Ret([fs EXCEPT ![path] = File(SopsEncrypt(fs[path].content))],
             "-e", "ok", "ok")

\* encrypt that, like decrypt, writes the tool's stdout to the file, and
\* does so before it looks at the exit status.
encrypt_WritesStdout(fs, path, o) ==
    IF ~fs[path].readable THEN Ret(fs, "none", "none", "err")
    ELSE IF Contains(fs[path].content, "ENC[")
    THEN Ret(fs, "none", "none", "ok")
    ELSE IF ToolExit("-e", fs[path], o.tool) # "ok"
    THEN Ret([fs EXCEPT ![path] = File(Empty)], "-e", "fail", "err")
    ELSE Ret([fs EXCEPT ![path] = File(SopsEncrypt(fs[path].content))],
             "-e", "ok", "ok")

encrypt(fs, path, o) ==
    IF ~fs[path].readable THEN Ret(fs, "none", "none", "err")
    ELSE IF Contains(fs[path].content, "ENC[")
    THEN Ret(fs, "none", "none", "ok")
    ELSE IF ToolExit("-e", fs[path], o.tool) # "ok"
    THEN Ret(fs, "-e", "fail", "err")
    ELSE Ret([fs EXCEPT ![path] = File(SopsEncrypt(fs[path].content))],
             "-e", "ok", "ok")

check_and_process_file(fs, path, o) ==
    IF ~fs[path].readable THEN Ret(fs, "none", "none", "err")
    ELSE IF \/ Contains(fs[path].content, "ENC[")
            \/ Contains(fs[path].content, "sops:")
    THEN decrypt(fs, path, o)
    ELSE Ret(fs, "none", "none", "ok")

ensure_decrypted(fs, path, o) ==
    IF ~fs[path].readable THEN Ret(fs, "none", "none", "err")
    ELSE IF Contains(fs[path].content, "ENC[")
    THEN decrypt(fs, path, o)
    ELSE Ret(fs, "none", "none", "ok")

\* The four events the loop reacts to; "Other" is any event kind it
\* ignores and "Error" the Err(e) the watcher delivers.
EventKinds == {"Opened", "Closed", "Modified", "Created", "Other", "Error"}

\* The match arms without their `if is_sops_file(&path)`.
HandlePath_Unguarded(fs, kind, path, o) ==
    IF kind \in {"Other", "Error"}
    THEN Ret(fs, "none", "none", "skip")
    ELSE CASE kind = "Opened"   -> decrypt(fs, path, o)
           [] kind = "Closed"   -> encrypt(fs, path, o)
           [] kind = "Modified" -> ensure_decrypted(fs, path, o)
           [] kind = "Created"  -> check_and_process_file(fs, path, o)

\* The body of `for path in paths` in the match arm of `kind`: the
\* is_sops_file guard, then the arm's function.
HandlePath(fs, kind, path, o) ==
    IF kind \in {"Other", "Error"} \/ ~is_sops_file(fs, path)
    THEN Ret(fs, "none", "none", "skip")
    ELSE CASE kind = "Opened"   -> decrypt(fs, path, o)
           [] kind = "Closed"   -> encrypt(fs, path, o)
           [] kind = "Modified" -> ensure_decrypted(fs, path, o)
           [] kind = "Created"  -> check_and_process_file(fs, path, o)

\* The error propagated out of main with `?` instead of being logged.
LoopStopsOnError(res) == res # "err"

\* `if let Err(e) = ... { eprintln!(..) }`: the error is logged and the
\* loop goes on with the next event.
LoopContinues(res) == TRUE

AppendCapped(seq, e) == IF Len(seq) < MaxRun THEN Append(seq, e) ELSE seq

NoEvent ==
    [kind |-> "none", path |-> "none", managed |-> FALSE, given |-> "none",
     tool |-> "none", exit |-> "none", res |-> "none", before |-> Absent,
     afterOpen |-> FALSE, afterErr |-> FALSE, twice |-> FALSE,
     run |-> <<>>]

\* One iteration of `for res in rx`, for an event that carries one path.
\* `last` records it: afterOpen says that the event handled just before
\* was an Opened of the same path whose decrypt succeeded, afterErr that
\* the event handled just before failed on another path, twice that it
\* was the same event on the same path and was handled without an error,
\* and run lists the tool exits of the Closed events on this path handled
\* in a row.
Handling(kind, path, o, r) ==
    LET prevRun == IF last.kind = "Closed" /\ last.path = path
                   THEN last.run ELSE <<>>
    IN [kind      |-> kind,
        path      |-> path,
        managed   |-> is_sops_file(files, path),
        given     |-> o.tool,
        tool      |-> r.tool,
        exit      |-> r.exit,
        res       |-> r.res,
        before    |-> files[path],
        afterOpen |-> /\ last.kind = "Opened" /\ last.path = path
                      /\ last.tool = "-d" /\ last.res = "ok",
        afterErr  |-> last.res = "err" /\ last.path # path,
        twice     |-> /\ last.kind = kind /\ last.path = path
                      /\ last.res = "ok",
        run       |-> IF kind # "Closed" THEN <<>>
                      ELSE IF r.tool = "none" THEN prevRun
                      ELSE AppendCapped(prevRun, r.exit)]

HandleEvent(kind, path, o) ==
    /\ program = "watcher"
    /\ running
    /\ LET r == HandlePath(files, kind, path, o)
       IN /\ files'   = r.files
          /\ running' = LoopContinues(r.res)
          /\ last'    = Handling(kind, path, o, r)
          /\ UNCHANGED <<program, hookVars, queueVars>>

\* ======================================================= the editor hooks
\* (src/sops.rs)

\* The host's threads that call the hooks.
Threads == {"t1", "t2"}

\* HashMap::contains_key, insert and get on DECRYPTED_FILES, a function
\* whose domain is the set of keys.
contains_key(map, key) == key \in DOMAIN map

insert(map, key, value) ==
    [k \in DOMAIN map \cup {key} |-> IF k = key THEN value ELSE map[k]]

is_sops_encrypted(content) ==
    /\ Contains(content, "sops:")
    /\ \/ Contains(content, "encrypted_")
       \/ Contains(content, "ENC[")

\* The locals of a hook call, with a record of the call: the file and
\* whether the path was a key of the map when the call began, whether
\* nobody else has written the file since (clean), the verb it ran the
\* tool with and the tool's exit status, whether the tool was told to
\* encrypt content that already was ciphertext, whether the call inserted
\* into the map, and whether its write replaced the payload that a
\* save_document had put there by another one.
LocalsAt(pc, fn, path, before, tracked) ==
    [pc |-> pc, fn |-> fn, path |-> path, content |-> NoContent,
     plain |-> NoContent, before |-> before, tracked |-> tracked,
     clean |-> TRUE, tool |-> "none", exit |-> "none",
     double |-> FALSE, inserted |-> FALSE, lost |-> FALSE]

Locals(pc, fn, path) ==
    IF path = "null" THEN LocalsAt(pc, fn, path, Absent, FALSE)
    ELSE LocalsAt(pc, fn, path, files[path],
                  contains_key(DECRYPTED_FILES, path))

\* A thread that is in no hook call.
IdleThread == LocalsAt("idle", "none", "null", Absent, FALSE)

\* The locals of the other calls, after somebody else wrote `path`.
Unclean(locals, path) ==
    [u \in DOMAIN locals |->
        IF locals[u].path = path
        THEN [locals[u] EXCEPT !.clean = FALSE] ELSE locals[u]]

\* The call that returned in the latest step: its locals and the value it
\* returned.
NoCall == [of |-> IdleThread, ret |-> "none"]

\* `return ret` of the call whose locals are l.
ReturnAs(t, l, ret) ==
    /\ th' = [th EXCEPT ![t] = IdleThread]
    /\ returned' = [of |-> l, ret |-> ret]

\* The same for a call that wrote its file in this step.
ReturnWritten(t, l, ret) ==
    /\ th' = [Unclean(th, l.path) EXCEPT ![t] = IdleThread]
    /\ returned' = [of |-> l, ret |-> ret]

Return(t, ret) == ReturnAs(t, th[t], ret)

\* A step inside a call.
Goto(t, l) ==
    /\ th' = [th EXCEPT ![t] = l]
    /\ returned' = NoCall

\* The same for a step that wrote the file of the call.
GotoWritten(t, l) ==
    /\ th' = [Unclean(th, l.path) EXCEPT ![t] = l]
    /\ returned' = NoCall

\* The documents the host opens, and the null pointer it may pass.
Documents == {"secrets.sops.yaml"}

HookPaths == Documents \cup {"null"}

FirstPc(fn) ==
    CASE fn = "open_document"  -> "o_read"
      [] fn = "save_document"  -> "s_lock"
      [] fn = "close_document" -> "c_lock"

\* The host calls a hook; `if path.is_null() { return false; }`.
Call(t, fn, path) ==
    /\ \/ program = "hooks" /\ t = "t1"
       \/ program = "threads"
    /\ ~crashed
    /\ th[t].pc = "idle"
    /\ IF path = "null"
       THEN ReturnAs(t, Locals("idle", fn, path), FALSE)
       ELSE Goto(t, Locals(FirstPc(fn), fn, path))
    /\ UNCHANGED <<files, DECRYPTED_FILES, lock, temp, saved, crashed>>

\* ---- open_document
\* open_document without the is_sops_encrypted test: whatever can be read
\* is handed to the tool.
o_read_NoTest(t) ==
    /\ ~crashed /\ th[t].pc = "o_read"
    /\ LET f == files[th[t].path] IN
         IF ~f.readable THEN Return(t, FALSE)
         ELSE Goto(t, [th[t] EXCEPT !.pc = "o_decrypt",
                                    !.content = f.content])
    /\ UNCHANGED <<files, DECRYPTED_FILES, lock, temp, saved, crashed>>

\* fs::read_to_string and the is_sops_encrypted test.
o_read(t) ==
    /\ ~crashed /\ th[t].pc = "o_read"
    /\ LET f == files[th[t].path] IN
         IF ~f.readable THEN Return(t, FALSE)
         ELSE IF ~is_sops_encrypted(f.content) THEN Return(t, TRUE)
         ELSE Goto(t, [th[t] EXCEPT !.pc = "o_decrypt",
                                    !.content = f.content])
    /\ UNCHANGED <<files, DECRYPTED_FILES, lock, temp, saved, crashed>>

\* decrypt_file: `sops -d <path>` reads the file as it is now.
o_decrypt(t, outcome) ==
    /\ ~crashed /\ th[t].pc = "o_decrypt"
    /\ LET f == files[th[t].path]
           l == [th[t] EXCEPT !.tool = "-d",
                              !.exit = ToolExit("-d", f, outcome)]
       IN IF l.exit # "ok"
          THEN ReturnAs(t, l, FALSE)
          ELSE Goto(t, [l EXCEPT !.pc = "o_insert",
                                 !.plain = SopsDecrypt(f.content)])
    /\ UNCHANGED <<files, DECRYPTED_FILES, lock, temp, saved, crashed>>

\* open_document storing the decrypted text instead of what it read.
o_insert_StoresPlain(t) ==
    /\ ~crashed /\ th[t].pc = "o_insert"
    /\ lock = "free"
    /\ lock' = t
    /\ DECRYPTED_FILES' = insert(DECRYPTED_FILES, th[t].path, th[t].plain)
    /\ GotoWritten(t, [th[t] EXCEPT !.pc = "o_write", !.inserted = TRUE,
                                     !.content = NoContent])
    /\ UNCHANGED <<files, temp, saved, crashed>>

\* DECRYPTED_FILES.lock() and files.insert(path, content).
o_insert(t) ==
    /\ ~crashed /\ th[t].pc = "o_insert"
    /\ lock = "free"
    /\ lock' = t
    /\ DECRYPTED_FILES' = insert(DECRYPTED_FILES, th[t].path, th[t].content)
    /\ GotoWritten(t, [th[t] EXCEPT !.pc = "o_write", !.inserted = TRUE,
                                     !.content = NoContent])
    /\ UNCHANGED <<files, temp, saved, crashed>>

\* fs::write(path, decrypted), with the guard still alive; the guard is
\* dropped on both ways out.
o_write(t, w) ==
    /\ ~crashed /\ th[t].pc = "o_write"
    /\ lock' = "free"
    /\ IF w # "ok"
       THEN /\ Return(t, FALSE)
            /\ UNCHANGED <<files, saved>>
       ELSE /\ files' = [files EXCEPT ![th[t].path] = File(th[t].plain)]
            /\ saved' = [saved EXCEPT ![th[t].path] = FALSE]
            /\ ReturnWritten(t, th[t], TRUE)
    /\ UNCHANGED <<DECRYPTED_FILES, temp, crashed>>

\* ---- save_document
\* DECRYPTED_FILES.lock() and files.contains_key(path).
s_lock(t) ==
    /\ ~crashed /\ th[t].pc = "s_lock"
    /\ lock = "free"
    /\ IF ~contains_key(DECRYPTED_FILES, th[t].path)
       THEN Return(t, TRUE) /\ UNCHANGED lock
       ELSE Goto(t, [th[t] EXCEPT !.pc = "s_read"]) /\ lock' = t
    /\ UNCHANGED <<files, DECRYPTED_FILES, temp, saved, crashed>>

\* fs::read_to_string under the lock, then drop(files).
s_read(t) ==
    /\ ~crashed /\ th[t].pc = "s_read"
    /\ lock' = "free"
    /\ LET f == files[th[t].path] IN
         IF ~f.readable THEN Return(t, FALSE)
         ELSE Goto(t, [th[t] EXCEPT !.pc = "s_temp", !.content = f.content])
    /\ UNCHANGED <<files, DECRYPTED_FILES, temp, saved, crashed>>

\* encrypt_file: fs::write(temp_file, content).
s_temp(t, w) ==
    /\ ~crashed /\ th[t].pc = "s_temp"
    /\ IF w # "ok"
       THEN Return(t, FALSE) /\ UNCHANGED temp
       ELSE /\ temp' = [temp EXCEPT ![th[t].path] = File(th[t].content)]
            /\ Goto(t, [th[t] EXCEPT !.pc = "s_tool", !.content = NoContent])
    /\ UNCHANGED <<files, DECRYPTED_FILES, lock, saved, crashed>>

\* encrypt_file: `sops -e --in-place <temp_file>`, and remove_file on a
\* non-zero exit.
s_tool(t, outcome) ==
    /\ ~crashed /\ th[t].pc = "s_tool"
    /\ LET f == temp[th[t].path]
           l == [th[t] EXCEPT !.tool = "-e",
                              !.double = /\ f.kind = "file"
                                         /\ Contains(f.content, "ENC["),
                              !.exit = ToolExit("-e", f, outcome)]
       IN IF l.exit # "ok"
          THEN /\ temp' = [temp EXCEPT ![l.path] = Absent]
               /\ ReturnAs(t, l, FALSE)
          ELSE /\ temp' = [temp EXCEPT ![l.path] = File(SopsEncrypt(f.content))]
               /\ Goto(t, [l EXCEPT !.pc = "s_rename"])
    /\ UNCHANGED <<files, DECRYPTED_FILES, lock, saved, crashed>>

\* encrypt_file: fs::rename(temp_file, path).
s_rename(t, w) ==
    /\ ~crashed /\ th[t].pc = "s_rename"
    /\ IF w # "ok" \/ temp[th[t].path].kind # "file"
       THEN Return(t, FALSE) /\ UNCHANGED <<files, temp, saved>>
       ELSE /\ files' = [files EXCEPT ![th[t].path] = temp[th[t].path]]
            /\ temp'  = [temp EXCEPT ![th[t].path] = Absent]
            /\ saved' = [saved EXCEPT ![th[t].path] = TRUE]
            /\ ReturnWritten(t, th[t], TRUE)
    /\ UNCHANGED <<DECRYPTED_FILES, lock, crashed>>

\* ---- close_document
\* DECRYPTED_FILES.lock() and files.get(path).
c_lock(t) ==
    /\ ~crashed /\ th[t].pc = "c_lock"
    /\ lock = "free"
    /\ lock' = t
    /\ Goto(t, [th[t] EXCEPT !.pc =
                  IF ~contains_key(DECRYPTED_FILES, th[t].path)
                  THEN "c_relock" ELSE "c_write"])
    /\ UNCHANGED <<files, DECRYPTED_FILES, temp, saved, crashed>>

\* fs::write(path, original_content); `return false` drops the guard.
c_write(t, w) ==
    /\ ~crashed /\ th[t].pc = "c_write"
    /\ IF w # "ok"
       THEN /\ Return(t, FALSE)
            /\ lock' = "free"
            /\ UNCHANGED <<files, saved>>
       ELSE /\ files' = [files EXCEPT ![th[t].path] =
                           File(DECRYPTED_FILES[th[t].path])]
            /\ saved' = [saved EXCEPT ![th[t].path] = FALSE]
            /\ GotoWritten(t, [th[t] EXCEPT !.pc = "c_relock",
                          !.lost = /\ saved[th[t].path]
                                   /\ files[th[t].path].content.data #
                                        DECRYPTED_FILES[th[t].path].data])
            /\ UNCHANGED lock
    /\ UNCHANGED <<DECRYPTED_FILES, temp, crashed>>

\* The second DECRYPTED_FILES.lock() of close_document, reached while the
\* guard of the first is still alive: std::sync::Mutex::lock on a mutex
\* the thread already holds does not return; it blocks for ever or
\* panics, and a panic in an extern "C" function aborts the process.
\* files.remove(path) and `true` after it are never reached.
RelockOutcomes == {"deadlock", "panic"}

c_relock(t, how) ==
    /\ ~crashed /\ th[t].pc = "c_relock"
    /\ lock = t
    /\ IF how = "deadlock"
       THEN Goto(t, [th[t] EXCEPT !.pc = "c_stuck"]) /\ UNCHANGED crashed
       ELSE crashed' = TRUE /\ UNCHANGED <<th, returned>>
    /\ UNCHANGED <<files, DECRYPTED_FILES, lock, temp, saved>>

HookFns == {"open_document", "save_document", "close_document"}

IoOutcomes == {"ok", "fail"}

Hooks ==
    /\ \E t \in Threads :
        \/ \E fn \in HookFns, path \in HookPaths : Call(t, fn, path)
        \/ o_read(t)
        \/ \E outcome \in IoOutcomes : o_decrypt(t, outcome)
        \/ o_insert(t)
        \/ \E w \in IoOutcomes : o_write(t, w)
        \/ s_lock(t)
        \/ s_read(t)
        \/ \E w \in IoOutcomes : s_temp(t, w)
        \/ \E outcome \in IoOutcomes : s_tool(t, outcome)
        \/ \E w \in IoOutcomes : s_rename(t, w)
        \/ c_lock(t)
        \/ \E w \in IoOutcomes : c_write(t, w)
        \/ \E how \in RelockOutcomes : c_relock(t, how)
    /\ UNCHANGED <<program, running, last, queueVars>>

\* ------------------------------------------------------- the environment
\* An editor or the operator writes the file.
EnvWrite(path, f) ==
    /\ files[path].kind = "file"
    /\ f.kind = "file"
    /\ files[path] # f
    /\ files' = [files EXCEPT ![path] = f]
    /\ saved' = [saved EXCEPT ![path] = FALSE]
    /\ last' = NoEvent
    /\ th' = Unclean(th, path)
    /\ returned' = NoCall
    /\ UNCHANGED <<program, running, DECRYPTED_FILES, lock, temp, crashed,
                   queueVars>>

EnvCreate(path, f) ==
    /\ files[path].kind = "absent"
    /\ files' = [files EXCEPT ![path] = f]
    /\ saved' = [saved EXCEPT ![path] = FALSE]
    /\ last' = NoEvent
    /\ th' = Unclean(th, path)
    /\ returned' = NoCall
    /\ UNCHANGED <<program, running, DECRYPTED_FILES, lock, temp, crashed,
                   queueVars>>

EnvRemove(path) ==
    /\ files[path].kind # "absent"
    /\ files' = [files EXCEPT ![path] = Absent]
    /\ saved' = [saved EXCEPT ![path] = FALSE]
    /\ last' = NoEvent
    /\ th' = Unclean(th, path)
    /\ returned' = NoCall
    /\ UNCHANGED <<program, running, DECRYPTED_FILES, lock, temp, crashed,
                   queueVars>>

RegularFiles == {Binary} \cup { File(c) : c \in EditContents }

vars == <<program, files, running, last, DECRYPTED_FILES, lock, temp, th, returned,
          saved, crashed, rx, editor>>

\* The programs: the watcher binary (src/bin/sops_context_server.rs) and
\* the extension library with the document hooks (src/sops.rs), called
\* by a host that makes one call at a time ("hooks") and by a host whose
\* two threads call at the same time on a document nobody else writes
\* ("threads").
Programs == {"watcher", "hooks", "threads"}

\* The document the two threads work on: the tool's output.
SharedDocument == File([data |-> "v1", layers |-> 1, user |-> {}])

\* What the editor writes into a document: a secret in the clear, the same
\* with the tool's metadata keys in it, or the tool's output.
DocumentFiles ==
    { File(c) : c \in { e \in EditContents :
                          e.user \in {{}, {"sops:", "encrypted_"}} } }

Init ==
    /\ program \in Programs
    /\ CASE program = "watcher" ->
              files \in [Paths -> {Absent} \cup RegularFiles]
         [] program = "hooks" ->
              /\ files \in [Paths -> {Absent} \cup DocumentFiles]
              /\ \A p \in Paths \ Documents : files[p] = Absent
         [] program = "threads" ->
              files = [p \in Paths |-> IF p \in Documents
                                       THEN SharedDocument ELSE Absent]
    /\ running = TRUE
    /\ last = NoEvent
    /\ DECRYPTED_FILES = [p \in {} |-> NoContent]
    /\ lock = "free"
    /\ temp = [p \in Paths |-> Absent]
    /\ th = [t \in Threads |-> IdleThread]
    /\ returned = NoCall
    /\ saved = [p \in Paths |-> FALSE]
    /\ crashed = FALSE
    /\ rx = <<>>
    /\ editor = "none"

EnvOn(path, written) ==
    \/ \E f \in written : EnvWrite(path, f)
    \/ \E f \in written : EnvCreate(path, f)
    \/ EnvRemove(path)

\* The watched tree, and the documents of the editor.
Env ==
    \/ /\ program = "watcher"
       /\ \E path \in Paths : EnvOn(path, RegularFiles \cup {Dir})
    \/ /\ program = "hooks"
       /\ \E path \in Documents : EnvOn(path, DocumentFiles)

Watch ==
    \E kind \in EventKinds, path \in Paths, o \in Outcomes :
        HandleEvent(kind, path, o)

Next == Watch \/ Hooks \/ Env

Spec == Init /\ [][Next]_vars

\* ------------------------------------------------ is_sops_file on its own
\* The classification applied to one path of any name that holds any
\* file: `last` carries the path and the file, then the answer.
ClassifiedFiles == {Absent, Dir, Binary} \cup { File(c) : c \in Contents }

InitClassify ==
    /\ program = "watcher"
    /\ files = [p \in Paths |-> Absent]
    /\ running = TRUE
    /\ \E name \in FileNames, f \in ClassifiedFiles :
          last = [NoEvent EXCEPT !.path = name, !.before = f]
    /\ DECRYPTED_FILES = [p \in {} |-> NoContent]
    /\ lock = "free"
    /\ temp = [p \in Paths |-> Absent]
    /\ th = [t \in Threads |-> IdleThread]
    /\ returned = NoCall
    /\ saved = [p \in Paths |-> FALSE]
    /\ crashed = FALSE
    /\ rx = <<>>
    /\ editor = "none"

Classify ==
    /\ last.kind = "none"
    /\ last' = [last EXCEPT
                  !.kind = "Classified",
                  !.managed = is_sops_file([n \in {last.path} |-> last.before],
                                           last.path)]
    /\ UNCHANGED <<program, files, running, hookVars, queueVars>>

NextClassify == Classify

SpecClassify == InitClassify /\ [][NextClassify]_vars

\* ------------------------------------- the watcher fed by its own writes
\* The watcher with a working tool, on one file that an editor opens and
\* closes once; every write the watcher or the tool makes to the file
\* comes back through the channel as a Modified and a Closed notification.
Watched == "secrets.sops.yaml"

Working == [tool |-> "ok", write |-> "ok"]

\* tx.send(event).  The channel is unbounded; it is kept finite by
\* merging a notification with an equal one that is still waiting.
Send(queue, kind) ==
    IF \E i \in 1..Len(queue) : queue[i] = kind
    THEN queue ELSE Append(queue, kind)

\* The notifications of one write to the file.
SendWrite(queue) == Send(Send(queue, "Modified"), "Closed")

Ciphertexts == { c \in Contents : c.layers > 0 }

InitQuiesce ==
    /\ program = "watcher"
    /\ \E c \in Ciphertexts :
          files = [p \in Paths |-> IF p = Watched THEN File(c) ELSE Absent]
    /\ running = TRUE
    /\ last = NoEvent
    /\ DECRYPTED_FILES = [p \in {} |-> NoContent]
    /\ lock = "free"
    /\ temp = [p \in Paths |-> Absent]
    /\ th = [t \in Threads |-> IdleThread]
    /\ returned = NoCall
    /\ saved = [p \in Paths |-> FALSE]
    /\ crashed = FALSE
    /\ rx = <<>>
    /\ editor = "idle"

\* The editor opens the file, and later closes it without writing.
EditorOpens ==
    /\ editor = "idle"
    /\ editor' = "opened"
    /\ rx' = Send(rx, "Opened")
    /\ UNCHANGED <<program, files, running, last, hookVars>>

EditorCloses ==
    /\ editor = "opened"
    /\ editor' = "closed"
    /\ rx' = Send(rx, "Closed")
    /\ UNCHANGED <<program, files, running, last, hookVars>>

\* One iteration of `for res in rx` on the notification at the head of
\* the channel; the write of decrypt or of the tool's in-place encrypt
\* sends its notifications.
Receive ==
    /\ running
    /\ rx # <<>>
    /\ LET kind == Head(rx)
           r    == HandlePath(files, kind, Watched, Working)
       IN /\ files'   = r.files
          /\ running' = LoopContinues(r.res)
          /\ last'    = Handling(kind, Watched, Working, r)
          /\ rx'      = IF r.files[Watched] # files[Watched]
                        THEN SendWrite(Tail(rx)) ELSE Tail(rx)
    /\ UNCHANGED <<program, hookVars, editor>>

NextQuiesce == EditorOpens \/ EditorCloses \/ Receive

SpecQuiesce ==
    /\ InitQuiesce
    /\ [][NextQuiesce]_vars
    /\ WF_vars(EditorOpens)
    /\ WF_vars(EditorCloses)
    /\ WF_vars(Receive)

\* ================================================================ claims

\* The file of the latest event, as the handler left it.
After == files[last.path]

Handled == last.kind \in {"Opened", "Closed", "Modified", "Created"}

\* C1: the watcher never invokes the tool, to decrypt or to encrypt, for a
\* path that is_sops_file classifies as not managed when the event is
\* handled.
C1_NoToolOnNotManaged ==
    Handled /\ ~last.managed =>
        /\ last.tool = "none"
        /\ After = last.before

\* A new config.yaml with no markers in it is created and nothing is run.
C1_Witness ==
    /\ last.kind = "Created"
    /\ last.path = "config.yaml"
    /\ last.before = File([data |-> "v1", layers |-> 0, user |-> {}])
    /\ ~last.managed
    /\ last.tool = "none"

\* C2: a file managed by its suffix that the Opened event just before
\* decrypted is, on Closed with the tool succeeding, encrypted by the tool
\* and left in ciphertext form.
C2_CloseAfterOpenEncrypts ==
    /\ last.kind = "Closed"
    /\ last.afterOpen
    /\ HasSopsSuffix(last.path)
    /\ last.given = "ok"
    => /\ last.tool = "-e"
       /\ last.exit = "ok"
       /\ last.res = "ok"
       /\ Contains(After.content, "ENC[")
       /\ After.content.data = last.before.content.data

C2_Witness ==
    /\ last.kind = "Closed"
    /\ last.afterOpen
    /\ last.path = "secrets.sops.yaml"
    /\ last.tool = "-e"
    /\ last.exit = "ok"
    /\ ~Contains(last.before.content, "ENC[")
    /\ Contains(After.content, "ENC[")

\* C3: a file managed only through its content that the Opened event just
\* before decrypted is, on Closed with the tool succeeding, in ciphertext
\* form again.
C3_SniffedFileRoundTrips ==
    /\ last.kind = "Closed"
    /\ last.afterOpen
    /\ ~HasSopsSuffix(last.path)
    /\ last.given = "ok"
    => Contains(After.content, "ENC[")

\* encrypt on a readable file whose content holds "ENC[" returns Ok, runs
\* no tool and leaves the file as it was.
EncryptOfCiphertextIsNoOp ==
    /\ last.kind = "Closed"
    /\ last.managed
    /\ last.before.readable
    /\ Contains(last.before.content, "ENC[")
    => /\ last.tool = "none"
       /\ last.res = "ok"
       /\ After = last.before

\* C4 as stated: encrypt of ciphertext is a no-op, and Closed events
\* handled in a row on one path invoke the tool at most once.
C4_AtMostOneInvocation ==
    /\ EncryptOfCiphertextIsNoOp
    /\ last.kind = "Closed" => Len(last.run) <= 1

\* C4 as amended: encrypt of ciphertext is a no-op, and among the Closed
\* events handled in a row on one path no tool invocation follows a
\* successful one (every invocation but the last one failed).
C4_NoInvocationAfterSuccess ==
    /\ EncryptOfCiphertextIsNoOp
    /\ last.kind = "Closed" =>
          \A i \in 1..(Len(last.run) - 1) : last.run[i] = "fail"

\* A Closed event that finds the ciphertext of the Closed event before it.
C4_Witness ==
    /\ last.kind = "Closed"
    /\ last.run = <<"ok">>
    /\ last.managed
    /\ Contains(last.before.content, "ENC[")
    /\ last.tool = "none"
    /\ last.res = "ok"

\* C5: the hooks never run the tool's encrypt verb on content that is
\* already ciphertext.
C5_NeverDoubleEncrypts ==
    /\ ~returned.of.double
    /\ \A t \in Threads : ~th[t].double

\* C6: an encrypt attempt whose tool run exits non-zero leaves the file as
\* it was before the call, in the watcher's encrypt and in save_document
\* (whose call returns false).
C6_FailedEncryptLeavesFile ==
    /\ last.tool = "-e" /\ last.exit = "fail" =>
          After = last.before /\ last.res = "err"
    /\ /\ returned.of.fn = "save_document"
       /\ returned.of.exit = "fail"
       => /\ returned.ret = FALSE
          /\ returned.of.clean => files[returned.of.path] = returned.of.before

C6_Witness ==
    /\ returned.of.fn = "save_document"
    /\ returned.of.tool = "-e"
    /\ returned.of.exit = "fail"
    /\ returned.of.clean
    /\ returned.of.before.kind = "file"

\* The same in the watcher.
C6_WatcherCase ==
    /\ last.kind = "Closed"
    /\ last.tool = "-e"
    /\ last.exit = "fail"

\* C7: a decrypt whose tool run exits non-zero leaves the file as it was,
\* in the watcher's decrypt and in open_document, which returns false and
\* leaves the keys of DECRYPTED_FILES as they were.
C7_FailedDecryptLeavesFile ==
    /\ last.tool = "-d" /\ last.exit = "fail" =>
          After = last.before /\ last.res = "err"
    /\ /\ returned.of.fn = "open_document"
       /\ returned.of.exit = "fail"
       => /\ returned.ret = FALSE
          /\ ~returned.of.inserted
          /\ returned.of.clean =>
               /\ files[returned.of.path] = returned.of.before
               /\ contains_key(DECRYPTED_FILES, returned.of.path)
                    = returned.of.tracked

C7_Witness ==
    /\ last.kind = "Opened"
    /\ last.tool = "-d"
    /\ last.exit = "fail"
    /\ Contains(last.before.content, "ENC[")

\* The same in open_document.
C7_HookCase ==
    /\ returned.of.fn = "open_document"
    /\ returned.of.tool = "-d"
    /\ returned.of.exit = "fail"
    /\ returned.of.clean
    /\ ~returned.of.tracked

\* C8: no tool failure and no read error of a handler ends the watch loop:
\* the loop keeps consuming events.
C8_LoopKeepsRunning == running

\* An event whose tool run was made right after an event that failed on
\* another path.
C8_Witness ==
    /\ last.afterErr
    /\ last.tool # "none"
    /\ running

\* C9: no hook call ends blocked for ever or aborts the process, and the
\* lock is free whenever no call is in progress.
C9_HooksReturnAndRelease ==
    /\ ~crashed
    /\ \A t \in Threads : th[t].pc # "c_stuck"
    /\ (\A t \in Threads : th[t].pc = "idle") => lock = "free"

\* C10: close_document never replaces the payload that a successful
\* save_document put into the file by the payload of the older snapshot.
C10_CloseKeepsSavedEdit ==
    \A t \in Threads : ~th[t].lost

\* C12: a Modified event on a managed file never invokes decrypt, whether
\* the content is plaintext or was encrypted again by somebody else.
C12_ModifiedNeverDecrypts ==
    last.kind = "Modified" /\ last.managed => last.tool = "none"

\* C13: an open_document that returns false leaves DECRYPTED_FILES as it
\* was before the call: the call inserted nothing, and a path that was not
\* tracked before is not tracked after (nobody else having touched it).
C13_FailedOpenLeavesMap ==
    /\ returned.of.fn = "open_document"
    /\ returned.ret = FALSE
    /\ returned.of.clean
    => /\ ~returned.of.inserted
       /\ contains_key(DECRYPTED_FILES, returned.of.path) = returned.of.tracked

\* C14: an event handled right after the same event on the same path,
\* which was handled without an error and with no change to the file in
\* between, invokes no tool and leaves the file as it found it.
C14_DuplicateIsHarmless ==
    Handled /\ last.twice =>
        /\ last.tool = "none"
        /\ After = last.before

\* The positions whose step runs the tool (decrypt_file, encrypt_file),
\* and those whose step reads, writes or renames a file.
ToolPcs == {"o_decrypt", "s_tool"}

FilePcs == {"o_read", "o_write", "s_read", "s_temp", "s_rename", "c_write"}

\* The lock is not held by a thread that is about to run the tool.
NoToolUnderLock ==
    \A t \in Threads : th[t].pc \in ToolPcs => lock # t

\* C15: the DECRYPTED_FILES lock is held only for the lookups and
\* mutations of the map: no thread holds it while it runs the tool, while
\* it does file input or output, or for ever.
C15_LockOnlyForMap ==
    /\ NoToolUnderLock
    /\ \A t \in Threads : th[t].pc \in FilePcs \cup {"c_stuck"} => lock # t

C16_PlaintextCase ==
    /\ returned.of.fn = "open_document"
    /\ returned.ret = TRUE
    /\ returned.of.clean
    /\ returned.of.before = File([data |-> "v1", layers |-> 0, user |-> {}])
    /\ returned.of.tool = "none"
    /\ ~contains_key(DECRYPTED_FILES, returned.of.path)

\* The names of FileNames that end with one of .sops.yaml, .sops.json,
\* .enc.yaml, .enc.json and .sops, read off the strings.
NamesWithSuffix ==
    {"secrets.sops.yaml", ".sops", "a.sops.json", "b.enc.yaml", "c.enc.json",
     NotUnicode}

\* What C17 says of the content: readable, and holding both "sops:" and
\* "ENC[", or holding "encrypted_suffix".
SniffedAsManaged(f) ==
    /\ f.readable
    /\ \/ Contains(f.content, "sops:") /\ Contains(f.content, "ENC[")
       \/ Contains(f.content, "encrypted_suffix")

\* C17 as stated: is_sops_file is true exactly of an existing regular file
\* whose name ends with an allow-listed suffix or whose readable content
\* holds the markers.
C17_ExactClassification ==
    last.kind = "Classified" =>
        last.managed = /\ last.before.kind = "file"
                       /\ \/ last.path \in NamesWithSuffix
                          \/ SniffedAsManaged(last.before)

\* C17 as amended: the same for a path whose file name is valid Unicode;
\* a path whose file name is not is never managed.
C17_ExactForUnicodeNames ==
    last.kind = "Classified" =>
        last.managed = /\ last.before.kind = "file"
                       /\ last.path # NotUnicode
                       /\ \/ last.path \in NamesWithSuffix
                          \/ SniffedAsManaged(last.before)

\* A file without the suffix that holds "sops:" but not "ENC[" was
\* classified as not managed.
C17_Witness ==
    /\ last.kind = "Classified"
    /\ last.path = "xsops.yaml"
    /\ last.before = File([data |-> "v1", layers |-> 0, user |-> {"sops:"}])
    /\ ~last.managed

\* C18: the watcher runs the tool's decrypt verb only on a file whose
\* content, when the event is handled, holds "ENC[".
C18_DecryptOnlyCiphertext ==
    Handled /\ last.tool = "-d" =>
        /\ last.before.readable
        /\ Contains(last.before.content, "ENC[")

C19_CloseCase ==
    \E t \in Threads :
        /\ th[t].pc = "c_relock" /\ th[t].tracked /\ th[t].clean
        /\ Contains(files[th[t].path].content, "ENC[")

MidPcs == {"o_decrypt", "o_insert", "o_write", "s_temp", "s_tool", "s_rename"}

\* C11: no two hook calls for the same path are at the same time between
\* two of their file and tool operations.
C11_OneTransitionPerPath ==
    \A t, u \in Threads :
        /\ t # u
        /\ th[t].path = th[u].path
        /\ th[t].pc \in MidPcs
        => th[u].pc \notin MidPcs

\* The editor has opened and closed the file, the channel is empty and
\* the file is ciphertext.
Quiescent ==
    /\ editor = "closed"
    /\ rx = <<>>
    /\ files[Watched].readable
    /\ Contains(files[Watched].content, "ENC[")

\* C20: after one Opened and one Closed from outside on a managed
\* ciphertext file, with every write of the watcher and of the tool coming
\* back as Modified and Closed, the watcher comes to rest: from some point
\* on the channel stays empty and the file stays ciphertext.
C20_WatcherQuiesces == <>[]Quiescent

====
